---- MODULE Spec2Model ----
(***************************************************************************)
(* Model of face_detection.py: the main() capture loop with its            *)
(* try/except/finally shutdown path, and the two persistence functions     *)
(* save_screenshot and save_detected_faces acting on a small filesystem.   *)
(*                                                                         *)
(* Assumptions of the model: the output directories are writable (the      *)
(* persistence functions themselves do not raise); a frame is one row of   *)
(* Width pixels; the wall clock is counted in ticks, TicksPerSecond of     *)
(* them to a second, and strftime("%Y%m%d_%H%M%S") keeps only the second.  *)
(***************************************************************************)
EXTENDS Integers, Sequences, FiniteSets, TLC

VARIABLES pc, modelFile, camera, capLocal, capOpened, webcamCalls,
          releaseCalls, reads, frame, ret, faces, key, sampled, shows,
          window, destroyCalls, exc, reported, closedPrinted, quit,
          fs, clock, hist

vars == <<pc, modelFile, camera, capLocal, capOpened, webcamCalls,
          releaseCalls, reads, frame, ret, faces, key, sampled, shows,
          window, destroyCalls, exc, reported, closedPrinted, quit,
          fs, clock, hist>>

mainVars == <<pc, modelFile, camera, capLocal, capOpened, webcamCalls,
              releaseCalls, reads, ret, key, sampled, shows,
              window, destroyCalls, exc, reported, closedPrinted, quit>>

(* ---------------- bounds ---------------- *)
MaxReads == 3
MaxFaces == 2
MaxCalls == 2
Width == 2
TicksPerSecond == 2

(* ---------------- program constants ---------------- *)
ord_q == 113
ord_s == 115
ord_f == 102
NoKey == -1
ScreenshotsDir == "screenshots"
FacesDir == "detected_faces"
Green == 2

(* ---------------- frames and rectangles ---------------- *)
None == << >>
Pixels == {0, 1}
Frames == [1..Width -> Pixels]
\* the frames the camera delivers in the model: first pixel free, rest dark
CameraFrames == {f \in Frames : \A i \in 2..Width : f[i] = 0}
\* rectangles inside the frame, and the ones the classifier reports in the model
Rects == {r \in [x : 0..(Width - 1), w : 1..Width] : r.x + r.w <= Width}
DetectableRects == {r \in Rects : r.x + r.w = Width /\ r.w <= 2}

RECURSIVE SeqsUpTo(_, _)
SeqsUpTo(S, n) ==
    IF n = 0 THEN {<< >>}
    ELSE LET shorter == SeqsUpTo(S, n - 1)
         IN  shorter \cup {Append(s, e) : s \in {t \in shorter : Len(t) = n - 1}, e \in S}

FaceLists == SeqsUpTo(DetectableRects, MaxFaces)

\* cv2.flip(frame, 1): mirror around the vertical axis
flip(f) == [i \in 1..Len(f) |-> f[Len(f) + 1 - i]]

\* cv2.rectangle(frame, (x, y), (x+w, y+h), green, 2) on a one-row frame
DrawRect(f, r) ==
    [i \in 1..Len(f) |-> IF (i - 1) >= r.x /\ (i - 1) <= r.x + r.w THEN Green ELSE f[i]]

RECURSIVE DrawAll(_, _)
DrawAll(f, rs) == IF rs = << >> THEN f ELSE DrawAll(DrawRect(f, Head(rs)), Tail(rs))

\* frame[y:y+h, x:x+w]
Crop(f, r) == SubSeq(f, r.x + 1, r.x + r.w)

\* waitKey(1) & 0xFF
Mask(k) == k % 256

(* ---------------- the filesystem ---------------- *)
EmptyFiles == [p \in {} |-> 0]
\* mutant: a timestamp finer than the second
strftime_SubSecond(now) == now

strftime(now) == now \div TicksPerSecond
ScreenshotName(dir, ts) == <<dir, "screenshot", ts>>
\* mutant: the index is left out of the face file name
FaceName_NoIndex(dir, ts, i) == <<dir, "face", ts, 0>>

FaceName(dir, ts, i) == <<dir, "face", ts, i>>

makedirs(fsys, dir) ==
    IF dir \in fsys.dirs THEN fsys ELSE [fsys EXCEPT !.dirs = @ \cup {dir}]

\* mutant: an existing file is kept instead of overwritten
imwrite_NoOverwrite(fsys, name, img) ==
    [fsys EXCEPT !.files = @ @@ (name :> [data |-> img, gen |-> fsys.nwrites + 1]),
                 !.nwrites = @ + 1]

\* cv2.imwrite(filename, img): creates or overwrites the file
imwrite(fsys, name, img) ==
    [fsys EXCEPT !.files = (name :> [data |-> img, gen |-> fsys.nwrites + 1]) @@ @,
                 !.nwrites = @ + 1]

save_screenshot(fsys, f, dir, now) ==
    imwrite(makedirs(fsys, dir), ScreenshotName(dir, strftime(now)), f)

RECURSIVE WriteFaces(_, _, _, _, _, _)
WriteFaces(fsys, f, fcs, dir, ts, i) ==
    IF i >= Len(fcs) THEN fsys
    ELSE WriteFaces(imwrite(fsys, FaceName(dir, ts, i), Crop(f, fcs[i + 1])),
                    f, fcs, dir, ts, i + 1)

\* mutant: the directory is created before the empty-list test
save_detected_faces_MkdirFirst(fsys, f, fcs, dir, now) ==
    IF Len(fcs) = 0 THEN makedirs(fsys, dir)
    ELSE WriteFaces(makedirs(fsys, dir), f, fcs, dir, strftime(now), 0)

save_detected_faces(fsys, f, fcs, dir, now) ==
    IF Len(fcs) = 0 THEN fsys
    ELSE WriteFaces(makedirs(fsys, dir), f, fcs, dir, strftime(now), 0)

(* ---------------- main(): lifecycle ---------------- *)
LoopPcs == {"read", "flip", "detect", "imshow", "waitKey", "dispatch", "sleep"}
RUNNING == pc \in LoopPcs
SHUTTING_DOWN == pc \in {"except", "finally"}
TERMINATED == pc = "done"

Init ==
    /\ pc = "init_detector"
    /\ modelFile \in BOOLEAN
    /\ camera \in BOOLEAN
    /\ capLocal = FALSE
    /\ capOpened = FALSE
    /\ webcamCalls = 0
    /\ releaseCalls = 0
    /\ reads = 0
    /\ frame = None
    /\ ret = FALSE
    /\ faces = << >>
    /\ key = NoKey
    /\ sampled = 0
    /\ shows = 0
    /\ window = FALSE
    /\ destroyCalls = 0
    /\ exc = "none"
    /\ reported = "none"
    /\ closedPrinted = FALSE
    /\ quit = FALSE
    /\ fs \in {[dirs |-> d, files |-> EmptyFiles, nwrites |-> 0] :
                 d \in SUBSET {ScreenshotsDir, FacesDir}}
    /\ clock = 0
    /\ hist = << >>

\* mutant: the os.path.isfile test is missing
initialize_face_detector_NoCheck ==
    /\ pc = "init_detector"
    /\ pc' = "init_webcam"
    /\ UNCHANGED <<modelFile, camera, capLocal, capOpened, webcamCalls,
                   releaseCalls, reads, frame, ret, faces, key, sampled, shows,
                   window, destroyCalls, exc, reported, closedPrinted, quit, fs,
                   clock, hist>>

\* initialize_face_detector(): FileNotFoundError when the model file is absent
initialize_face_detector ==
    /\ pc = "init_detector"
    /\ IF modelFile
       THEN pc' = "init_webcam" /\ UNCHANGED <<exc, reported>>
       ELSE pc' = "except" /\ exc' = "FileNotFoundError" /\ UNCHANGED reported
    /\ UNCHANGED <<modelFile, camera, capLocal, capOpened, webcamCalls,
                   releaseCalls, reads, frame, ret, faces, key, sampled, shows,
                   window, destroyCalls, closedPrinted, quit, fs, clock, hist>>

\* mutant: the cap.isOpened() test is missing
initialize_webcam_NoCheck ==
    /\ pc = "init_webcam"
    /\ webcamCalls' = webcamCalls + 1
    /\ pc' = "read"
    /\ capLocal' = TRUE
    /\ capOpened' = camera
    /\ UNCHANGED <<modelFile, camera, releaseCalls, reads, frame, ret, faces,
                   key, sampled, shows, window, destroyCalls, exc, reported,
                   closedPrinted, quit, fs, clock, hist>>

\* cap = initialize_webcam(): RuntimeError when the device does not open
initialize_webcam ==
    /\ pc = "init_webcam"
    /\ webcamCalls' = webcamCalls + 1
    /\ IF camera
       THEN pc' = "read" /\ capLocal' = TRUE /\ capOpened' = TRUE
            /\ UNCHANGED <<exc, reported>>
       ELSE pc' = "except" /\ exc' = "RuntimeError" /\ UNCHANGED reported
            /\ UNCHANGED <<capLocal, capOpened>>
    /\ UNCHANGED <<modelFile, camera, releaseCalls, reads, frame, ret, faces,
                   key, sampled, shows, window, destroyCalls, closedPrinted,
                   quit, fs, clock, hist>>

\* ret, frame = cap.read(): a failed read yields (False, None)
Read ==
    /\ pc = "read"
    /\ reads < MaxReads
    /\ reads' = reads + 1
    /\ \E ok \in BOOLEAN :
         /\ ret' = ok
         /\ IF ok THEN frame' \in CameraFrames ELSE frame' = None
    /\ faces' = << >>
    /\ key' = NoKey
    /\ sampled' = 0
    /\ pc' = "flip"
    /\ UNCHANGED <<modelFile, camera, capLocal, capOpened, webcamCalls,
                   releaseCalls, shows, window, destroyCalls, exc, reported,
                   closedPrinted, quit, fs, clock, hist>>

\* mutant: a failed read is retried instead of raising
FlipFrame_Retry ==
    /\ pc = "flip"
    /\ IF frame = None
       THEN pc' = "read" /\ UNCHANGED <<frame, exc, reported>>
       ELSE pc' = "detect" /\ frame' = flip(frame) /\ UNCHANGED <<exc, reported>>
    /\ UNCHANGED <<modelFile, camera, capLocal, capOpened, webcamCalls,
                   releaseCalls, reads, ret, faces, key, sampled, shows,
                   window, destroyCalls, closedPrinted, quit, fs, clock, hist>>

\* frame = cv2.flip(frame, 1): raises cv2.error on None
FlipFrame ==
    /\ pc = "flip"
    /\ IF frame = None
       THEN pc' = "except" /\ exc' = "cv2.error" /\ UNCHANGED <<frame, reported>>
       ELSE pc' = "detect" /\ frame' = flip(frame) /\ UNCHANGED <<exc, reported>>
    /\ UNCHANGED <<modelFile, camera, capLocal, capOpened, webcamCalls,
                   releaseCalls, reads, ret, faces, key, sampled, shows,
                   window, destroyCalls, closedPrinted, quit, fs, clock, hist>>

\* processed_frame, faces = detect_faces(frame, face_cascade)
detect_faces ==
    /\ pc = "detect"
    /\ \E fcs \in FaceLists :
         /\ faces' = fcs
         /\ frame' = DrawAll(frame, fcs)
    /\ pc' = "imshow"
    /\ UNCHANGED <<modelFile, camera, capLocal, capOpened, webcamCalls,
                   releaseCalls, reads, ret, key, sampled, shows,
                   window, destroyCalls, exc, reported, closedPrinted, quit,
                   fs, clock, hist>>

\* cv2.imshow('Face Detection', processed_frame)
Imshow ==
    /\ pc = "imshow"
    /\ shows' = shows + 1
    /\ window' = TRUE
    /\ pc' = "waitKey"
    /\ UNCHANGED <<modelFile, camera, capLocal, capOpened, webcamCalls,
                   releaseCalls, reads, frame, ret, faces, key, sampled,
                   destroyCalls, exc, reported, closedPrinted, quit, fs, clock, hist>>

RawKeys == {NoKey, ord_q, ord_s, ord_f, 97, ord_q + 256}

\* key = cv2.waitKey(1) & 0xFF
WaitKey ==
    /\ pc = "waitKey"
    /\ \E raw \in RawKeys : key' = Mask(raw)
    /\ sampled' = sampled + 1
    /\ pc' = "dispatch"
    /\ UNCHANGED <<modelFile, camera, capLocal, capOpened, webcamCalls,
                   releaseCalls, reads, frame, ret, faces, shows,
                   window, destroyCalls, exc, reported, closedPrinted, quit,
                   fs, clock, hist>>

\* mutant: 'q' is noticed but the loop is not left
Dispatch_QuitContinues ==
    /\ pc = "dispatch"
    /\ pc' = "sleep"
    /\ IF key = ord_q
       THEN quit' = TRUE /\ UNCHANGED fs
       ELSE /\ UNCHANGED quit
            /\ IF key = ord_s
               THEN fs' = save_screenshot(fs, frame, ScreenshotsDir, clock)
               ELSE IF key = ord_f /\ Len(faces) > 0
                    THEN fs' = save_detected_faces(fs, frame, faces, FacesDir, clock)
                    ELSE UNCHANGED fs
    /\ UNCHANGED <<modelFile, camera, capLocal, capOpened, webcamCalls,
                   releaseCalls, reads, frame, ret, faces, key, sampled, shows,
                   window, destroyCalls, exc, reported, closedPrinted, clock, hist>>

\* mutant: elif key == ord('f') or len(faces) > 0
Dispatch_OrFaces ==
    /\ pc = "dispatch"
    /\ IF key = ord_q
       THEN pc' = "finally" /\ quit' = TRUE /\ UNCHANGED fs
       ELSE /\ pc' = "sleep"
            /\ UNCHANGED quit
            /\ IF key = ord_s
               THEN fs' = save_screenshot(fs, frame, ScreenshotsDir, clock)
               ELSE IF key = ord_f \/ Len(faces) > 0
                    THEN fs' = save_detected_faces(fs, frame, faces, FacesDir, clock)
                    ELSE UNCHANGED fs
    /\ UNCHANGED <<modelFile, camera, capLocal, capOpened, webcamCalls,
                   releaseCalls, reads, frame, ret, faces, key, sampled, shows,
                   window, destroyCalls, exc, reported, closedPrinted, clock, hist>>

\* if key == ord('q') ... elif key == ord('s') ... elif key == ord('f') and len(faces) > 0
Dispatch ==
    /\ pc = "dispatch"
    /\ IF key = ord_q
       THEN pc' = "finally" /\ quit' = TRUE /\ UNCHANGED fs
       ELSE /\ pc' = "sleep"
            /\ UNCHANGED quit
            /\ IF key = ord_s
               THEN fs' = save_screenshot(fs, frame, ScreenshotsDir, clock)
               ELSE IF key = ord_f /\ Len(faces) > 0
                    THEN fs' = save_detected_faces(fs, frame, faces, FacesDir, clock)
                    ELSE UNCHANGED fs
    /\ UNCHANGED <<modelFile, camera, capLocal, capOpened, webcamCalls,
                   releaseCalls, reads, frame, ret, faces, key, sampled, shows,
                   window, destroyCalls, exc, reported, closedPrinted, clock, hist>>

\* time.sleep(0.03): the wall clock may or may not move on by a tick
Sleep ==
    /\ pc = "sleep"
    /\ \E d \in 0..1 : clock' = clock + d
    /\ pc' = "read"
    /\ UNCHANGED <<modelFile, camera, capLocal, capOpened, webcamCalls,
                   releaseCalls, reads, frame, ret, faces, key, sampled, shows,
                   window, destroyCalls, exc, reported, closedPrinted, quit, fs, hist>>

\* a cv2 call of the loop body raises (detect_faces, imshow, waitKey)
Raise ==
    /\ pc \in {"detect", "imshow", "waitKey"}
    /\ pc' = "except"
    /\ exc' = "cv2.error"
    /\ UNCHANGED reported
    /\ UNCHANGED <<modelFile, camera, capLocal, capOpened, webcamCalls,
                   releaseCalls, reads, frame, ret, faces, key, sampled, shows,
                   window, destroyCalls, closedPrinted, quit, fs, clock, hist>>

\* mutant: the handler releases the capture handle as well
Except_Releases ==
    /\ pc = "except"
    /\ pc' = "finally"
    /\ reported' = exc
    /\ IF capLocal
       THEN releaseCalls' = releaseCalls + 1 /\ capOpened' = FALSE
       ELSE UNCHANGED <<releaseCalls, capOpened>>
    /\ UNCHANGED <<modelFile, camera, capLocal, webcamCalls, reads, frame, ret,
                   faces, key, sampled, shows, window, destroyCalls, exc,
                   closedPrinted, quit, fs, clock, hist>>

\* except Exception as e: print(f"An error occurred: ...")
Except ==
    /\ pc = "except"
    /\ reported' = exc
    /\ pc' = "finally"
    /\ UNCHANGED <<modelFile, camera, capLocal, capOpened, webcamCalls,
                   releaseCalls, reads, frame, ret, faces, key, sampled, shows,
                   window, destroyCalls, exc, closedPrinted, quit,
                   fs, clock, hist>>

\* finally: if 'cap' in locals(): cap.release(); destroyAllWindows(); print
Finally ==
    /\ pc = "finally"
    /\ IF capLocal
       THEN releaseCalls' = releaseCalls + 1 /\ capOpened' = FALSE
       ELSE UNCHANGED <<releaseCalls, capOpened>>
    /\ destroyCalls' = destroyCalls + 1
    /\ window' = FALSE
    /\ closedPrinted' = TRUE
    /\ pc' = "done"
    /\ UNCHANGED <<modelFile, camera, capLocal, webcamCalls, reads, frame, ret,
                   faces, key, sampled, shows, exc, reported, quit, fs, clock, hist>>

Next ==
    \/ initialize_face_detector
    \/ initialize_webcam
    \/ Read
    \/ FlipFrame
    \/ detect_faces
    \/ Imshow
    \/ WaitKey
    \/ Dispatch
    \/ Sleep
    \/ Raise
    \/ Except
    \/ Finally

Spec == Init /\ [][Next]_vars

\* once the except or finally block is entered it runs to its end
SpecFair == Spec /\ WF_vars(Except) /\ WF_vars(Finally)

(* ---------------- direct calls of the persistence functions ---------------- *)
InitSave ==
    /\ pc = "call"
    /\ modelFile = TRUE
    /\ camera = TRUE
    /\ capLocal = FALSE
    /\ capOpened = FALSE
    /\ webcamCalls = 0
    /\ releaseCalls = 0
    /\ reads = 0
    /\ frame = None
    /\ ret = FALSE
    /\ faces = << >>
    /\ key = NoKey
    /\ sampled = 0
    /\ shows = 0
    /\ window = FALSE
    /\ destroyCalls = 0
    /\ exc = "none"
    /\ reported = "none"
    /\ closedPrinted = FALSE
    /\ quit = FALSE
    /\ fs \in {[dirs |-> d, files |-> EmptyFiles, nwrites |-> 0] :
                 d \in {{}, {ScreenshotsDir, FacesDir}}}
    /\ clock = 0
    /\ hist = << >>

\* save_screenshot(frame) called d ticks after the previous call
CallSaveScreenshot ==
    /\ pc = "call"
    /\ Len(hist) < MaxCalls
    /\ \E f \in CameraFrames, d \in 0..1 :
         /\ clock' = clock + d
         /\ frame' = f
         /\ faces' = << >>
         /\ fs' = save_screenshot(fs, f, ScreenshotsDir, clock')
         /\ hist' = Append(hist, [fn |-> "save_screenshot", frame |-> f,
                                  faces |-> << >>, dir |-> ScreenshotsDir,
                                  now |-> clock', before |-> fs, after |-> fs'])
    /\ UNCHANGED mainVars

\* save_detected_faces(frame, faces) called d ticks after the previous call
CallSaveDetectedFaces ==
    /\ pc = "call"
    /\ Len(hist) < MaxCalls
    /\ \E f \in CameraFrames, fcs \in FaceLists, d \in 0..1 :
         /\ clock' = clock + d
         /\ frame' = f
         /\ faces' = fcs
         /\ fs' = save_detected_faces(fs, f, fcs, FacesDir, clock')
         /\ hist' = Append(hist, [fn |-> "save_detected_faces", frame |-> f,
                                  faces |-> fcs, dir |-> FacesDir,
                                  now |-> clock', before |-> fs, after |-> fs'])
    /\ UNCHANGED mainVars

NextSave ==
    \/ CallSaveScreenshot
    \/ CallSaveDetectedFaces

SpecSave == InitSave /\ [][NextSave]_vars

(* ======================= properties of main() ======================= *)
\* listings of a directory: all its files, and those stamped with second ts
FilesIn(fsys, dir) == {p \in DOMAIN fsys.files : p[1] = dir}
FilesAt(fsys, dir, ts) == {p \in FilesIn(fsys, dir) : p[3] = ts}


\* C1: a capture handle returned by initialize_webcam() is released exactly
\* once, at shutdown (in the finally block), however the loop was left; it is
\* never released while the loop is RUNNING and never released twice.
C1_ReleasedExactlyOnce ==
    /\ [](releaseCalls <= 1)
    /\ [](RUNNING => releaseCalls = 0 /\ capOpened)
    /\ []((TERMINATED /\ capLocal) => (releaseCalls = 1 /\ ~capOpened))
    /\ [][releaseCalls' # releaseCalls => (pc = "finally" /\ pc' = "done")]_vars

C1_Witness == TERMINATED /\ capLocal /\ reported = "cv2.error" /\ reads = 2
                 /\ releaseCalls = 1

\* C2: with the model file absent, main() reports FileNotFoundError and
\* finishes without calling initialize_webcam(), reading a frame, showing a
\* window or entering RUNNING.
C2_MissingModelFile ==
    ~modelFile =>
        /\ webcamCalls = 0
        /\ ~capOpened
        /\ reads = 0
        /\ shows = 0
        /\ ~window
        /\ ~RUNNING
        /\ (pc = "except" => exc = "FileNotFoundError")
        /\ (pc \in {"finally", "done"} => reported = "FileNotFoundError")

C2_Witness == ~modelFile /\ TERMINATED /\ reported = "FileNotFoundError"

\* C3: when the camera cannot be opened the fault is fatal before the loop:
\* RUNNING is never entered, no frame is read, the release is skipped at
\* shutdown, the windows are still destroyed and completion is still printed.
C3_CameraNotOpened ==
    (modelFile /\ ~camera) =>
        /\ ~RUNNING
        /\ reads = 0
        /\ releaseCalls = 0
        /\ (pc = "except" => exc = "RuntimeError")
        /\ (pc \in {"finally", "done"} => reported = "RuntimeError")
        /\ (TERMINATED => (destroyCalls = 1 /\ closedPrinted /\ ~capLocal))

C3_Witness == modelFile /\ ~camera /\ webcamCalls = 1 /\ TERMINATED
                 /\ destroyCalls = 1 /\ releaseCalls = 0

\* C4: a single failed cap.read() ends the session: the iteration is
\* abandoned, the fault is reported, the loop goes to shutdown, and no further
\* read, imshow, waitKey or save call happens.
ReadFailed == reads > 0 /\ ~ret

C4_FailedReadIsFatal ==
    /\ [](ReadFailed => pc \in {"flip", "except", "finally", "done"})
    /\ []((ReadFailed /\ pc = "except") => exc = "cv2.error")
    /\ []((ReadFailed /\ pc \in {"finally", "done"}) => reported = "cv2.error")
    /\ [][ReadFailed => (/\ reads' = reads
                         /\ shows' = shows
                         /\ sampled' = sampled
                         /\ fs' = fs
                         /\ ReadFailed')]_vars

C4_Witness == ReadFailed /\ reads = 2 /\ TERMINATED /\ reported = "cv2.error"

\* C5: the lifecycle is RUNNING -> SHUTTING_DOWN -> TERMINATED only: every way
\* out of main() passes through the finally block (windows destroyed,
\* completion printed) and then terminates; after 'q' no frame is read and no
\* file written; RUNNING is never re-entered after SHUTTING_DOWN.
C5_Lifecycle ==
    /\ [][(SHUTTING_DOWN \/ TERMINATED) => ~RUNNING']_vars
    /\ [][TERMINATED' => (pc = "finally" \/ TERMINATED)]_vars
    /\ [][(RUNNING /\ ~RUNNING') => SHUTTING_DOWN']_vars
    /\ [](TERMINATED => (destroyCalls = 1 /\ closedPrinted /\ ~window))
    /\ [](~TERMINATED => (destroyCalls = 0 /\ ~closedPrinted))
    /\ [][quit => (reads' = reads /\ fs' = fs /\ ~RUNNING')]_vars
    /\ (SHUTTING_DOWN ~> TERMINATED)
    /\ (quit ~> TERMINATED)

C5_Witness == TERMINATED /\ quit /\ reads = 2 /\ fs.nwrites > 0 /\ destroyCalls = 1

\* C7: each iteration samples one keypress, which selects at most one action:
\* 'q' leaves the loop, 's' saves a screenshot of the annotated frame, 'f'
\* saves the faces only when the rectangle list is non-empty.  The filesystem
\* changes in an iteration iff the key is 's', or 'f' with faces detected;
\* 's' touches only screenshots/ and 'f' only detected_faces/.
DirView(fsys, dir) ==
    [exists |-> dir \in fsys.dirs,
     files |-> [p \in FilesIn(fsys, dir) |-> fsys.files[p]]]

Max(a, b) == IF a >= b THEN a ELSE b
IsFaces(c) == c.fn = "save_detected_faces"
IsShot(c) == c.fn = "save_screenshot"
FaceFilesAt(fsys, dir, ts) == {p \in FilesAt(fsys, dir, ts) : p[2] = "face"}
ShotFilesAt(fsys, dir, ts) == {p \in FilesAt(fsys, dir, ts) : p[2] = "screenshot"}
\* the files of fsys other than those named in S
Others(fsys, S) == [p \in (DOMAIN fsys.files) \ S |-> fsys.files[p]]

\* C6: save_detected_faces with an empty list does nothing: no directory is
\* created (also when it is absent) and no file is written.
C6_EmptyListNoEffect ==
    \A k \in DOMAIN hist :
        (IsFaces(hist[k]) /\ Len(hist[k].faces) = 0) =>
            hist[k].after = hist[k].before

C6_Witness ==
    \E k \in DOMAIN hist :
        /\ IsFaces(hist[k])
        /\ Len(hist[k].faces) = 0
        /\ FacesDir \notin hist[k].before.dirs
        /\ FacesDir \notin fs.dirs

\* C8: two save_screenshot calls in the same wall-clock second and directory
\* compute the same name; afterwards the directory holds exactly one file for
\* that second and its content is the second frame.  Two calls in different
\* seconds leave two distinct files.
C8_ScreenshotCollision ==
    \A k \in DOMAIN hist : \A j \in DOMAIN hist :
        (/\ j < k
         /\ IsShot(hist[j]) /\ IsShot(hist[k])
         /\ hist[j].dir = hist[k].dir
         /\ \A m \in (j + 1)..(k - 1) : ~IsShot(hist[m])) =>
            LET a == hist[j]
                b == hist[k]
                sa == a.now \div TicksPerSecond
                sb == b.now \div TicksPerSecond
                na == <<a.dir, "screenshot", sa>>
                nb == <<b.dir, "screenshot", sb>>
            IN  /\ FilesIn(b.after, b.dir) = FilesIn(a.after, b.dir) \cup {nb}
                /\ b.after.files[nb].data = b.frame
                /\ b.after.files[nb].gen > a.after.files[na].gen
                /\ IF sa = sb
                   THEN /\ ShotFilesAt(b.after, b.dir, sb) = {na}
                        /\ Cardinality(FilesIn(b.after, b.dir))
                             = Cardinality(FilesIn(a.after, b.dir))
                   ELSE /\ na # nb
                        /\ b.after.files[na] = a.after.files[na]
                        /\ Cardinality(FilesIn(b.after, b.dir))
                             = Cardinality(FilesIn(a.after, b.dir)) + 1

C8_Witness ==
    /\ Len(hist) = 2
    /\ IsShot(hist[1]) /\ IsShot(hist[2])
    /\ hist[1].now # hist[2].now
    /\ hist[1].now \div TicksPerSecond = hist[2].now \div TicksPerSecond
    /\ hist[1].frame # hist[2].frame
    /\ Cardinality(FilesIn(fs, ScreenshotsDir)) = 1

\* C9: save_detected_faces with n >= 1 rectangles creates the directory if
\* absent and writes exactly n files face_<ts>_<i>.png, i = 0..n-1 in list
\* order, with one timestamp for the whole call; the n names are distinct.
C9_OneFilePerFace ==
    \A k \in DOMAIN hist :
        (IsFaces(hist[k]) /\ Len(hist[k].faces) >= 1) =>
            LET c == hist[k]
                n == Len(c.faces)
                ts == c.now \div TicksPerSecond
                names == {<<c.dir, "face", ts, i>> : i \in 0..(n - 1)}
            IN  /\ c.after.dirs = c.before.dirs \cup {c.dir}
                /\ Cardinality(names) = n
                /\ c.after.nwrites = c.before.nwrites + n
                /\ DOMAIN c.after.files = DOMAIN c.before.files \cup names
                /\ Others(c.after, names) = Others(c.before, names)
                /\ \A i \in 0..(n - 1) :
                     /\ c.after.files[<<c.dir, "face", ts, i>>].data
                          = Crop(c.frame, c.faces[i + 1])
                     /\ c.after.files[<<c.dir, "face", ts, i>>].gen
                          = c.before.nwrites + i + 1

C9_Witness ==
    \E k \in DOMAIN hist :
        /\ IsFaces(hist[k])
        /\ Len(hist[k].faces) = 2
        /\ hist[k].faces[1] # hist[k].faces[2]
        /\ FacesDir \notin hist[k].before.dirs
        /\ Cardinality(FilesIn(hist[k].after, FacesDir)) = 2

\* C10: two save_detected_faces calls in the same second, with n1 and n2
\* rectangles: the first call's files with index below n2 are overwritten by
\* the second call, those with index n2..n1-1 survive unchanged, and the
\* directory holds max(n1, n2) files for that second, not n1 + n2.
C10_FacesCollision ==
    \A k \in DOMAIN hist :
        (/\ k > 1
         /\ IsFaces(hist[k - 1]) /\ IsFaces(hist[k])
         /\ hist[k - 1].dir = hist[k].dir
         /\ hist[k - 1].now \div TicksPerSecond = hist[k].now \div TicksPerSecond
         /\ Len(hist[k - 1].faces) >= 1 /\ Len(hist[k].faces) >= 1) =>
            LET a == hist[k - 1]
                b == hist[k]
                n1 == Len(a.faces)
                n2 == Len(b.faces)
                ts == b.now \div TicksPerSecond
                name(i) == <<b.dir, "face", ts, i>>
            IN  /\ \A i \in 0..(n1 - 1) :
                     IF i < n2
                     THEN /\ b.after.files[name(i)].data = Crop(b.frame, b.faces[i + 1])
                          /\ b.after.files[name(i)].gen > a.after.nwrites
                     ELSE b.after.files[name(i)] = a.after.files[name(i)]
                \* the count, for a second that held no face file before
                /\ FaceFilesAt(a.before, b.dir, ts) = {} =>
                     Cardinality(FaceFilesAt(b.after, b.dir, ts)) = Max(n1, n2)

C10_Witness ==
    /\ Len(hist) = 2
    /\ IsFaces(hist[1]) /\ IsFaces(hist[2])
    /\ hist[1].now # hist[2].now
    /\ hist[1].now \div TicksPerSecond = hist[2].now \div TicksPerSecond
    /\ Len(hist[1].faces) = 2
    /\ Len(hist[2].faces) = 1
    /\ FilesIn(hist[1].before, FacesDir) = {}
    /\ Cardinality(FilesIn(fs, FacesDir)) = 2

====
